---- MODULE Spec2Model ----
(***************************************************************************)
(* Model of src/async_impl/body.rs: the request/response Body of the       *)
(* asynchronous client.  A Body holds either reusable bytes               *)
(* (Inner::Reusable) or a hyper body (Inner::Hyper); the first poll turns  *)
(* the former into the latter.                                             *)
(*                                                                         *)
(* The hyper body is the library type ::hyper::Body (hyper 0.12).  Two of  *)
(* its kinds are modelled: "Once", which is what Body::from(Bytes) and     *)
(* Body::empty() build, and "Ext", an externally supplied source that      *)
(* answers successive polls with a script of outcomes and reports a fixed  *)
(* length hint.                                                            *)
(***************************************************************************)
EXTENDS Integers, Sequences, FiniteSets, TLC

\* ---------------------------------------------------------------- bounds
\* longest buffer handed to Body::reusable
MaxLen == 3
\* longest script of an external source
MaxScript == 3
\* polls made on the Body and on the handle it gives up
MaxPulls == 4
\* content_length calls that are recorded
MaxLenCalls == 2
\* advance and extend calls made on one Chunk
MaxOps == 3

ByteVals == {1, 2}
ErrVals == {7}
HintVals == {2}
\* the units an external source produces: none, one and two bytes
Units == {<<>>, <<1>>, <<2, 1>>}

\* ------------------------------------------------------- Option<T>, Bytes
None == <<>>
Some(x) == <<x>>

BytesUpTo(n) == UNION {[1..k -> ByteVals] : k \in 0..n}

\* Bytes::new()
Bytes_new == <<>>

\* ------------------------------------------------- Poll<Option<T>, Error>
Item(v) == [tag |-> "Item", val |-> v]
End == [tag |-> "End"]
NotReady == [tag |-> "NotReady"]
Err(e) == [tag |-> "Err", val |-> e]

\* ---------------------------------------------------------- ::hyper::Body
Once(v) == [kind |-> "Once", val |-> v]
Ext(s, h) == [kind |-> "Ext", script |-> s, pos |-> 1, hint |-> h]

\* ::hyper::Body::empty()
hyper_empty == Once(None)

\* ::hyper::Body::from(Bytes): an empty buffer gives the empty body
hyper_from(bytes) == IF Len(bytes) = 0 THEN hyper_empty ELSE Once(Some(bytes))

\* ::hyper::Body::poll: the new state of the body and the outcome
hyper_poll(b) ==
    IF b.kind = "Once"
    THEN [body |-> Once(None),
          res |-> IF b.val = None THEN End ELSE Item(b.val[1])]
    ELSE [body |-> [b EXCEPT !.pos = b.pos + 1],
          res |-> IF b.pos <= Len(b.script) THEN b.script[b.pos] ELSE End]

\* ::hyper::Body::content_length (hyper::body::Payload)
hyper_content_length(b) ==
    IF b.kind = "Once"
    THEN IF b.val = None THEN Some(0) ELSE Some(Len(b.val[1]))
    ELSE b.hint

\* what an external source may answer to one poll, and the sources tried
Outcomes ==
    {Item(c) : c \in Units} \cup {End, NotReady}
        \cup {Err(e) : e \in ErrVals}
Scripts == UNION {[1..k -> Outcomes] : k \in 0..MaxScript}
Hints == {None} \cup {Some(h) : h \in HintVals}

\* -------------------------------------------------------------- enum Inner
Reusable(bytes) == [tag |-> "Reusable", bytes |-> bytes]
Hyper(body) == [tag |-> "Hyper", body |-> body]
Unbuilt == [tag |-> "Unbuilt"]
Moved == [tag |-> "Moved"]

\* struct Chunk { inner: ::hyper::Chunk }
Chunk(c) == [inner |-> c]

\* the conversion of a hyper error into the crate's error (try_!)
error_from(e) == [hyper |-> e]

\* --------------------------------------------------------- ::hyper::Chunk
\* A hyper chunk is the bytes it still shows (a Bytes, whose advance moves
\* its start).  Chunk::default() and Chunk::from(Bytes):
hyper_chunk_default == Bytes_new
hyper_chunk_from(bytes) == bytes

\* Buf for ::hyper::Chunk; advance panics (Bytes::advance asserts) when cnt
\* is more than what remains, before anything is changed
hyper_chunk_bytes(c) == c
hyper_chunk_remaining(c) == Len(c)
hyper_chunk_advance(c, cnt) ==
    IF cnt <= Len(c)
    THEN [chunk |-> SubSeq(c, cnt + 1, Len(c)), panic |-> FALSE]
    ELSE [chunk |-> c, panic |-> TRUE]

\* AsRef<[u8]>, Extend<u8> and IntoIterator for ::hyper::Chunk; the
\* iterator is modelled by the bytes it yields, first to last
hyper_chunk_as_ref(c) == c
hyper_chunk_extend(c, iter) == c \o iter
RECURSIVE hyper_chunk_into_iter(_)
hyper_chunk_into_iter(c) ==
    IF c = <<>> THEN <<>> ELSE <<Head(c)>> \o hyper_chunk_into_iter(Tail(c))

\* mem::replace(dest, src): what dest holds afterwards and what it held
mem_replace(dest, src) == [dest |-> src, old |-> dest]

\* poll_inner that seeds the hyper body from the placeholder left by
\* mem::replace instead of from the bytes taken out
poll_inner_placeholder(self) ==
    IF self.tag = "Hyper"
    THEN self
    ELSE LET swapped == mem_replace(self, Reusable(Bytes_new))
         IN Hyper(hyper_from(swapped.dest.bytes))

\* Body::poll_inner: the Inner left behind; the returned reference is .body
poll_inner(self) ==
    IF self.tag = "Hyper"
    THEN self
    ELSE LET swapped == mem_replace(self, Reusable(Bytes_new))
             bytes == swapped.old.bytes
             installed == Hyper(hyper_from(bytes))
         IN installed

\* content_length that reports no length for reusable bytes
content_length_unknown(self) ==
    IF self.tag = "Reusable"
    THEN None
    ELSE hyper_content_length(self.body)

\* content_length that does not ask the hyper body
content_length_nodelegate(self) ==
    IF self.tag = "Reusable"
    THEN Some(Len(self.bytes))
    ELSE None

\* content_length that answers for a hyper body with a length of its own
content_length_zero(self) ==
    IF self.tag = "Reusable"
    THEN Some(Len(self.bytes))
    ELSE Some(0)

\* Body::content_length
content_length(self) ==
    IF self.tag = "Reusable"
    THEN Some(Len(self.bytes))
    ELSE hyper_content_length(self.body)

\* Body::wrap
wrap(body) == Hyper(body)

\* empty() built as a source without data whose length is not known
empty_unknown == Hyper(Ext(<<>>, None))

\* Body::empty
empty == Hyper(hyper_empty)

\* Body::reusable
reusable(chunk) == Reusable(chunk)

\* into_hyper whose handle is built from the bytes after they were moved out
into_hyper_moved(self) ==
    IF self.tag = "Reusable"
    THEN [buf |-> Some(self.bytes), handle |-> hyper_from(Bytes_new)]
    ELSE [buf |-> None, handle |-> self.body]

\* into_hyper that gives up a fresh empty body for a Body already streaming
into_hyper_fresh(self) ==
    IF self.tag = "Reusable"
    THEN [buf |-> Some(self.bytes), handle |-> hyper_from(self.bytes)]
    ELSE [buf |-> None, handle |-> hyper_empty]

\* Body::into_hyper
into_hyper(self) ==
    IF self.tag = "Reusable"
    THEN [buf |-> Some(self.bytes), handle |-> hyper_from(self.bytes)]
    ELSE [buf |-> None, handle |-> self.body]

\* poll that puts the placeholder Reusable(Bytes::new()) back at the end
poll_rebuffer(self) ==
    LET inner1 == poll_inner(self)
        r == hyper_poll(inner1.body)
    IN [self |-> IF r.res.tag = "End"
                 THEN Reusable(Bytes_new)
                 ELSE [inner1 EXCEPT !.body = r.body],
        ret |-> CASE r.res.tag = "Err" -> Err(error_from(r.res.val))
                  [] r.res.tag = "Item" -> Item(Chunk(r.res.val))
                  [] r.res.tag = "End" -> End
                  [] OTHER -> NotReady]

\* poll that polls a copy of the hyper body and not the one it holds
poll_on_copy(self) ==
    LET inner1 == poll_inner(self)
        r == hyper_poll(inner1.body)
    IN [self |-> inner1,
        ret |-> CASE r.res.tag = "Err" -> Err(error_from(r.res.val))
                  [] r.res.tag = "Item" -> Item(Chunk(r.res.val))
                  [] r.res.tag = "End" -> End
                  [] OTHER -> NotReady]

\* poll that polls the source once more when it failed
poll_retry(self) ==
    LET inner1 == poll_inner(self)
        r0 == hyper_poll(inner1.body)
        r == IF r0.res.tag = "Err" THEN hyper_poll(r0.body) ELSE r0
    IN [self |-> [inner1 EXCEPT !.body = r.body],
        ret |-> CASE r.res.tag = "Err" -> Err(error_from(r.res.val))
                  [] r.res.tag = "Item" -> Item(Chunk(r.res.val))
                  [] r.res.tag = "End" -> End
                  [] OTHER -> NotReady]

\* poll that takes a unit of length zero for the end of the data
poll_empty_is_end(self) ==
    LET inner1 == poll_inner(self)
        r == hyper_poll(inner1.body)
    IN [self |-> [inner1 EXCEPT !.body = r.body],
        ret |-> CASE r.res.tag = "Err" -> Err(error_from(r.res.val))
                  [] r.res.tag = "Item" /\ Len(r.res.val) > 0
                        -> Item(Chunk(r.res.val))
                  [] r.res.tag = "Item" -> End
                  [] r.res.tag = "End" -> End
                  [] OTHER -> NotReady]

\* poll that polls the source once more when it was not ready and drops
\* what that second poll answers
poll_spin(self) ==
    LET inner1 == poll_inner(self)
        r0 == hyper_poll(inner1.body)
        r == IF r0.res.tag = "NotReady"
             THEN [body |-> hyper_poll(r0.body).body, res |-> r0.res]
             ELSE r0
    IN [self |-> [inner1 EXCEPT !.body = r.body],
        ret |-> CASE r.res.tag = "Err" -> Err(error_from(r.res.val))
                  [] r.res.tag = "Item" -> Item(Chunk(r.res.val))
                  [] r.res.tag = "End" -> End
                  [] OTHER -> NotReady]

\* poll that polls a hyper body made of a copy of the bytes and keeps the
\* bytes
poll_keep_buffered(self) ==
    LET inner1 == poll_inner(self)
        r == hyper_poll(inner1.body)
    IN [self |-> IF self.tag = "Reusable"
                 THEN self
                 ELSE [inner1 EXCEPT !.body = r.body],
        ret |-> CASE r.res.tag = "Err" -> Err(error_from(r.res.val))
                  [] r.res.tag = "Item" -> Item(Chunk(r.res.val))
                  [] r.res.tag = "End" -> End
                  [] OTHER -> NotReady]

\* poll that reports the end of the data as a failure
poll_end_is_error(self) ==
    LET inner1 == poll_inner(self)
        r == hyper_poll(inner1.body)
    IN [self |-> [inner1 EXCEPT !.body = r.body],
        ret |-> CASE r.res.tag = "Err" -> Err(error_from(r.res.val))
                  [] r.res.tag = "Item" -> Item(Chunk(r.res.val))
                  [] r.res.tag = "End" -> Err(error_from(0))
                  [] OTHER -> NotReady]

\* poll that hands out the bytes one at a time
poll_byte_by_byte(self) ==
    LET inner1 == poll_inner(self)
        b == inner1.body
        split == b.kind = "Once" /\ b.val # None /\ Len(b.val[1]) > 1
        r == IF split
             THEN [body |-> Once(Some(Tail(b.val[1]))),
                   res |-> Item(<<Head(b.val[1])>>)]
             ELSE hyper_poll(b)
    IN [self |-> [inner1 EXCEPT !.body = r.body],
        ret |-> CASE r.res.tag = "Err" -> Err(error_from(r.res.val))
                  [] r.res.tag = "Item" -> Item(Chunk(r.res.val))
                  [] r.res.tag = "End" -> End
                  [] OTHER -> NotReady]

\* <Body as Stream>::poll: the Inner left behind and the value returned
poll(self) ==
    LET inner1 == poll_inner(self)
        r == hyper_poll(inner1.body)
    IN [self |-> [inner1 EXCEPT !.body = r.body],
        ret |-> CASE r.res.tag = "Err" -> Err(error_from(r.res.val))
                  [] r.res.tag = "Item" -> Item(Chunk(r.res.val))
                  [] r.res.tag = "End" -> End
                  [] OTHER -> NotReady]

\* ------------------------------------------------------- From<_> for Body
\* A text is the sequence of its characters; its bytes are its UTF-8
\* encoding, which is what a String holds and what str::as_bytes shows.
CharVals == {65, 233}
TextsUpTo(n) == UNION {[1..k -> CharVals] : k \in 0..n}

utf8_char(c) == IF c < 128 THEN <<c>> ELSE <<192 + (c \div 64), 128 + (c % 64)>>

RECURSIVE utf8(_)
utf8(text) ==
    IF text = <<>> THEN <<>> ELSE utf8_char(Head(text)) \o utf8(Tail(text))

\* Bytes::from(Vec<u8>), Bytes::from_static(&'static [u8]), Bytes::from(String)
\* and str::as_bytes
vec_into_bytes(vec) == vec
Bytes_from_static(s) == s
string_into_bytes(s) == utf8(s)
str_as_bytes(s) == utf8(s)

\* From<::hyper::Body> for Body
from_hyper_body(body) == wrap(body)

\* From<Bytes> for Body
from_bytes(b) == reusable(b)

\* From<Vec<u8>> that hands the vector to hyper instead of keeping it
from_vec_streaming(vec) == wrap(hyper_from(vec_into_bytes(vec)))

\* From<Vec<u8>> for Body
from_vec(vec) == reusable(vec_into_bytes(vec))

\* From<&'static [u8]> for Body
from_static_slice(s) == reusable(Bytes_from_static(s))

\* From<String> for Body
from_string(s) == reusable(string_into_bytes(s))

\* From<&'static str> for Body
from_static_str(s) == from_static_slice(str_as_bytes(s))

\* ------------------------------------------------------------ impl Chunk
\* Chunk::from_chunk
from_chunk(chunk) == Chunk(hyper_chunk_from(chunk))

\* #[derive(Default)] for Chunk
default_chunk == Chunk(hyper_chunk_default)

\* Buf::bytes for Chunk
bytes(self) == hyper_chunk_bytes(self.inner)

\* Buf::remaining for Chunk
remaining(self) == hyper_chunk_remaining(self.inner)

\* advance that does not pass the call on
advance_noop(self, n) == [self |-> self, panic |-> FALSE]

\* advance that stops at the end of the bytes instead of failing
advance_clamped(self, n) ==
    LET m == IF n <= remaining(self) THEN n ELSE remaining(self)
        r == hyper_chunk_advance(self.inner, m)
    IN [self |-> [self EXCEPT !.inner = r.chunk], panic |-> r.panic]

\* Buf::advance for Chunk: the Chunk left behind, and whether it panicked
advance(self, n) ==
    LET r == hyper_chunk_advance(self.inner, n)
    IN [self |-> [self EXCEPT !.inner = r.chunk], panic |-> r.panic]

\* Deref for Chunk
deref(self) == hyper_chunk_as_ref(self.inner)

\* AsRef<[u8]> for Chunk: &*self
as_ref(self) == deref(self)

\* Extend<u8> for Chunk
extend(self, iter) == [self EXCEPT !.inner = hyper_chunk_extend(self.inner, iter)]

\* into_iter that yields the bytes from the last one to the first
RECURSIVE reversed(_)
reversed(c) == IF c = <<>> THEN <<>> ELSE reversed(Tail(c)) \o <<Head(c)>>
into_iter_rev(self) == reversed(hyper_chunk_into_iter(self.inner))

\* IntoIterator for Chunk
into_iter(self) == hyper_chunk_into_iter(self.inner)

\* ------------------------------------------------------------------- state
VARIABLES
    inner,   \* Body.inner; Unbuilt before construction, Moved after into_hyper
    parts,   \* the pair returned by into_hyper, or None
    out,     \* what the polls of the Body returned, in order
    hout,    \* what the polls of the handle returned by into_hyper returned
    lens,    \* the content_length calls: how many polls preceded, the result
    ctor,    \* which constructor built the Body
    given,   \* the constructor's argument: the bytes, or the hyper body
    chunk,   \* a Chunk in the hands of a consumer, or None
    region,  \* all the bytes that Chunk was given, by from_chunk and extend
    cursor,  \* the sum of the advances that Chunk accepted
    asked,   \* the calls made for that Chunk: the operation and its argument
    panicked \* whether a call on that Chunk panicked

bodyVars == <<inner, parts, out, hout, lens, ctor, given>>
chunkVars == <<chunk, region, cursor, asked, panicked>>
vars == <<bodyVars, chunkVars>>

Init ==
    /\ inner = Unbuilt
    /\ parts = None
    /\ out = <<>>
    /\ hout = <<>>
    /\ lens = <<>>
    /\ ctor = "none"
    /\ given = None
    /\ chunk = None
    /\ region = <<>>
    /\ cursor = 0
    /\ asked = <<>>
    /\ panicked = FALSE

\* Body::reusable(chunk), also From<Bytes>
NewReusable ==
    /\ inner = Unbuilt
    /\ \E b \in BytesUpTo(MaxLen) :
        /\ inner' = reusable(b)
        /\ given' = b
    /\ ctor' = "reusable"
    /\ UNCHANGED <<parts, out, hout, lens, chunkVars>>

\* Body::empty()
NewEmpty ==
    /\ inner = Unbuilt
    /\ inner' = empty
    /\ given' = hyper_empty
    /\ ctor' = "empty"
    /\ UNCHANGED <<parts, out, hout, lens, chunkVars>>

\* Body::wrap(body), also From<::hyper::Body>
NewWrap ==
    /\ inner = Unbuilt
    /\ \E s \in Scripts, h \in Hints :
        /\ inner' = wrap(Ext(s, h))
        /\ given' = Ext(s, h)
    /\ ctor' = "wrap"
    /\ UNCHANGED <<parts, out, hout, lens, chunkVars>>

\* content_length that makes the transition to look at the hyper body
ContentLength_transitions ==
    /\ inner.tag \in {"Reusable", "Hyper"}
    /\ Len(lens) < MaxLenCalls
    /\ lens' = Append(lens, [at |-> Len(out),
                             val |-> content_length(poll_inner(inner))])
    /\ inner' = poll_inner(inner)
    /\ UNCHANGED <<parts, out, hout, ctor, given, chunkVars>>

\* body.content_length()
ContentLength ==
    /\ inner.tag \in {"Reusable", "Hyper"}
    /\ Len(lens) < MaxLenCalls
    /\ lens' = Append(lens, [at |-> Len(out), val |-> content_length(inner)])
    /\ UNCHANGED <<inner, parts, out, hout, ctor, given, chunkVars>>

\* body.poll()
Poll ==
    /\ inner.tag \in {"Reusable", "Hyper"}
    /\ Len(out) + Len(hout) < MaxPulls
    /\ LET r == poll(inner)
       IN /\ inner' = r.self
          /\ out' = Append(out, r.ret)
    /\ UNCHANGED <<parts, hout, lens, ctor, given, chunkVars>>

\* body.into_hyper(): the Body is consumed
IntoHyper ==
    /\ inner.tag \in {"Reusable", "Hyper"}
    /\ parts' = into_hyper(inner)
    /\ inner' = Moved
    /\ UNCHANGED <<out, hout, lens, ctor, given, chunkVars>>

\* a poll of the hyper body that into_hyper returned
HandlePoll ==
    /\ parts # None
    /\ Len(out) + Len(hout) < MaxPulls
    /\ LET r == hyper_poll(parts.handle)
       IN /\ parts' = [parts EXCEPT !.handle = r.body]
          /\ hout' = Append(hout, r.res)
    /\ UNCHANGED <<inner, out, lens, ctor, given, chunkVars>>

Next ==
    \/ NewReusable
    \/ NewEmpty
    \/ NewWrap
    \/ ContentLength
    \/ Poll
    \/ IntoHyper
    \/ HandlePoll

Spec == Init /\ [][Next]_vars

\* ------------------------------------------------------ the conversions
\* Body::from(bytes)
FromBytes ==
    /\ inner = Unbuilt
    /\ \E b \in BytesUpTo(MaxLen) :
        /\ inner' = from_bytes(b)
        /\ given' = b
    /\ ctor' = "from_bytes"
    /\ UNCHANGED <<parts, out, hout, lens, chunkVars>>

\* Body::from(vec)
FromVec ==
    /\ inner = Unbuilt
    /\ \E v \in BytesUpTo(MaxLen) :
        /\ inner' = from_vec(v)
        /\ given' = v
    /\ ctor' = "from_vec"
    /\ UNCHANGED <<parts, out, hout, lens, chunkVars>>

\* Body::from(slice)
FromStaticSlice ==
    /\ inner = Unbuilt
    /\ \E v \in BytesUpTo(MaxLen) :
        /\ inner' = from_static_slice(v)
        /\ given' = v
    /\ ctor' = "from_static_slice"
    /\ UNCHANGED <<parts, out, hout, lens, chunkVars>>

\* Body::from(string)
FromString ==
    /\ inner = Unbuilt
    /\ \E t \in TextsUpTo(MaxLen) :
        /\ inner' = from_string(t)
        /\ given' = t
    /\ ctor' = "from_string"
    /\ UNCHANGED <<parts, out, hout, lens, chunkVars>>

\* Body::from(str)
FromStaticStr ==
    /\ inner = Unbuilt
    /\ \E t \in TextsUpTo(MaxLen) :
        /\ inner' = from_static_str(t)
        /\ given' = t
    /\ ctor' = "from_static_str"
    /\ UNCHANGED <<parts, out, hout, lens, chunkVars>>

\* Body::from(hyper_body)
FromHyperBody ==
    /\ inner = Unbuilt
    /\ \E sc \in Scripts, h \in Hints :
        /\ inner' = from_hyper_body(Ext(sc, h))
        /\ given' = Ext(sc, h)
    /\ ctor' = "from_hyper_body"
    /\ UNCHANGED <<parts, out, hout, lens, chunkVars>>

FromNext ==
    \/ FromBytes
    \/ FromVec
    \/ FromStaticSlice
    \/ FromString
    \/ FromStaticStr
    \/ FromHyperBody

FromSpec == Init /\ [][FromNext]_vars

\* ------------------------------------------------- the life of one Chunk
\* Chunk::from_chunk(bytes)
NewChunk ==
    /\ chunk = None
    /\ \E b \in BytesUpTo(MaxLen) :
        /\ chunk' = from_chunk(b)
        /\ region' = b
        /\ asked' = <<[op |-> "from_chunk", n |-> Len(b)]>>
    /\ UNCHANGED <<bodyVars, cursor, panicked>>

\* Chunk::default()
NewDefaultChunk ==
    /\ chunk = None
    /\ chunk' = default_chunk
    /\ region' = <<>>
    /\ asked' = <<[op |-> "default", n |-> 0]>>
    /\ UNCHANGED <<bodyVars, cursor, panicked>>

\* chunk.advance(n); a panic ends the life of the consumer
Advance ==
    /\ chunk # None
    /\ ~panicked
    /\ Len(asked) <= MaxOps
    /\ \E n \in 0..(Len(region) + 1) :
        LET r == advance(chunk, n)
        IN /\ chunk' = r.self
           /\ panicked' = r.panic
           /\ cursor' = IF r.panic THEN cursor ELSE cursor + n
           /\ asked' = Append(asked, [op |-> "advance", n |-> n])
    /\ UNCHANGED <<bodyVars, region>>

\* chunk.extend(iter)
Extend ==
    /\ chunk # None
    /\ ~panicked
    /\ Len(asked) <= MaxOps
    /\ \E it \in BytesUpTo(1) :
        /\ chunk' = extend(chunk, it)
        /\ region' = region \o it
        /\ asked' = Append(asked, [op |-> "extend", n |-> Len(it)])
    /\ UNCHANGED <<bodyVars, cursor, panicked>>

ChunkNext ==
    \/ NewChunk
    \/ NewDefaultChunk
    \/ Advance
    \/ Extend

ChunkSpec == Init /\ [][ChunkNext]_vars

\* ------------------------------------------------ helpers of the properties
\* the bytes of a chunk returned by the Body, and of one returned by hyper
IsItem(o) == o.tag = "Item"
IsEnd(o) == o.tag = "End"

RECURSIVE ConcatChunks(_)
ConcatChunks(s) ==
    IF s = <<>> THEN <<>>
    ELSE LET o == s[Len(s)]
             front == ConcatChunks(SubSeq(s, 1, Len(s) - 1))
         IN IF IsItem(o) THEN front \o o.val.inner ELSE front

RECURSIVE ConcatRaw(_)
ConcatRaw(s) ==
    IF s = <<>> THEN <<>>
    ELSE LET o == s[Len(s)]
             front == ConcatRaw(SubSeq(s, 1, Len(s) - 1))
         IN IF IsItem(o) THEN front \o o.val ELSE front

IsPrefix(p, s) == Len(p) <= Len(s) /\ SubSeq(s, 1, Len(p)) = p

HasEnd(s) == \E i \in DOMAIN s : IsEnd(s[i])

\* the first n answers of a hyper body that is polled and nothing else
RECURSIVE Run(_, _)
Run(b, n) ==
    IF n = 0 THEN <<>>
    ELSE LET r == hyper_poll(b) IN <<r.res>> \o Run(r.body, n - 1)

\* the hyper body after n polls
RECURSIVE After(_, _)
After(b, n) == IF n = 0 THEN b ELSE After(hyper_poll(b).body, n - 1)

\* what the caller of Body::poll is to see for an answer of the source
Seen(o) ==
    CASE o.tag = "Item" -> [tag |-> "Item", val |-> [inner |-> o.val]]
      [] o.tag = "Err" -> [tag |-> "Err", val |-> [hyper |-> o.val]]
      [] OTHER -> o

\* the hyper body a Body stands for when it is built
Source == IF ctor = "reusable" THEN hyper_from(given) ELSE given

Built == ctor # "none"
Pulls == Len(out) + Len(hout)

\* ------------------------------------------------------------------ claims

\* C1: a Body built from bytes b, polled until the end of the data, has
\* returned chunks whose concatenation in poll order is b; before the end
\* the chunks returned so far are a prefix of b, and polls after the end
\* add nothing.
C1_PulledBytesAreGiven ==
    ctor = "reusable" =>
        /\ IsPrefix(ConcatChunks(out), given)
        /\ (HasEnd(out) => ConcatChunks(out) = given)
        /\ (Len(out) >= 2 => HasEnd(out))

C1_Witness ==
    /\ ctor = "reusable"
    /\ Len(given) >= 2
    /\ given[1] # given[2]
    /\ Len(out) >= 3
    /\ HasEnd(out)

\* C2: a Body that holds a hyper body never holds reusable bytes again: a
\* step leaves Inner::Hyper only when into_hyper consumes the Body, and
\* leaves Inner::Reusable to Inner::Hyper only by a poll.
C2_OneWay ==
    [][/\ (inner.tag = "Hyper" => inner'.tag \in {"Hyper", "Moved"})
       /\ (inner.tag = "Reusable" /\ inner'.tag = "Hyper"
              => out' # out /\ Len(out') = Len(out) + 1)
       /\ (inner.tag = "Moved" => inner'.tag = "Moved")]_vars

C2_Witness ==
    /\ ctor = "reusable"
    /\ inner.tag = "Hyper"
    /\ Len(out) >= 2
    /\ Len(lens) >= 1
    /\ lens[Len(lens)].at >= 1

\* C3: into_hyper on a Body that still holds its bytes b and was never
\* polled returns Some(b) and a handle that yields exactly b; however far
\* the handle is polled the buffer stays b.
C3_IntoHyperReusable ==
    (parts # None /\ ctor = "reusable" /\ out = <<>>) =>
        /\ parts.buf = Some(given)
        /\ IsPrefix(ConcatRaw(hout), given)
        /\ (HasEnd(hout) => ConcatRaw(hout) = given)
        /\ (Len(hout) >= 2 => HasEnd(hout))
        /\ \A i \in DOMAIN hout : hout[i].tag \in {"Item", "End"}

C3_Witness ==
    /\ parts # None
    /\ ctor = "reusable"
    /\ out = <<>>
    /\ Len(given) >= 2
    /\ given[1] # given[2]
    /\ Len(hout) >= 2
    /\ parts.buf = Some(given)

\* C4: into_hyper on a Body that holds a hyper body returns None and that
\* hyper body as it is: the answers of the Body's polls followed by the
\* answers of the handle's polls are the answers of the source polled that
\* many times, nothing replayed and nothing skipped.
C4_IntoHyperStreaming ==
    (parts # None /\ (ctor # "reusable" \/ out # <<>>)) =>
        /\ parts.buf = None
        /\ hout = SubSeq(Run(Source, Pulls), Len(out) + 1, Pulls)
        /\ parts.handle = After(Source, Pulls)

C4_Witness ==
    /\ parts # None
    /\ ctor = "wrap"
    /\ Len(out) >= 1
    /\ Len(hout) >= 2
    /\ IsItem(out[1])
    /\ IsItem(hout[1])
    /\ out[1].val.inner # hout[1].val
    /\ IsEnd(hout[2])

\* C5: content_length of a Body built from bytes b and not yet polled is
\* Some(len(b)).
C5_ContentLengthOfBytes ==
    ctor = "reusable" =>
        \A i \in DOMAIN lens :
            lens[i].at = 0 => lens[i].val = Some(Len(given))

C5_Witness ==
    /\ ctor = "reusable"
    /\ Len(given) >= 2
    /\ Len(lens) >= 1
    /\ lens[1].at = 0

\* C6 as stated: after the poll that made the transition content_length
\* still returns Some(len(b)).
C6_SameLengthAfterTransition ==
    ctor = "reusable" =>
        \A i \in DOMAIN lens :
            lens[i].at > 0 => lens[i].val = Some(Len(given))

\* C6 amended: after the poll that made the transition content_length
\* returns the number of bytes of b not yet returned by a poll, which is
\* Some(0), since that poll returns all of b.
C6_RemainingLengthAfterTransition ==
    ctor = "reusable" =>
        \A i \in DOMAIN lens :
            lens[i].at > 0 =>
                /\ lens[i].val =
                     Some(Len(given)
                            - Len(ConcatChunks(SubSeq(out, 1, lens[i].at))))
                /\ lens[i].val = Some(0)

C6_Witness ==
    /\ ctor = "reusable"
    /\ Len(given) >= 1
    /\ Len(lens) = 2
    /\ lens[1].at = 0
    /\ lens[2].at = 1

\* an End among the answers is followed by End only
EndIsFinal(s) ==
    \A i, j \in DOMAIN s : (i < j /\ IsEnd(s[i])) => IsEnd(s[j])

\* C7 as stated: whatever built the Body, no poll after one that returned
\* the end of the data returns anything else.
C7_EndIsFinalAlways == Built => EndIsFinal(out)

\* C7 amended: for a Body built from bytes or by empty() no poll after one
\* that returned the end of the data returns anything else; for a Body
\* built by wrap a poll returns the end of the data exactly when the
\* source does, also after an earlier end.
C7_EndIsFinalUnlessSourceResumes ==
    /\ (ctor \in {"reusable", "empty"} => EndIsFinal(out))
    /\ (ctor = "wrap" =>
          LET run == Run(given, Len(out))
          IN \A i \in DOMAIN out : IsEnd(out[i]) <=> IsEnd(run[i]))

C7_Witness ==
    /\ ctor = "reusable"
    /\ Len(given) >= 1
    /\ Len(out) >= 3
    /\ IsEnd(out[2])
    /\ IsEnd(out[3])

\* C8: a Body built by empty() has content_length Some(0) and its first
\* poll returns the end of the data; it never returns a chunk.
C8_Empty ==
    ctor = "empty" =>
        /\ \A i \in DOMAIN lens : lens[i].val = Some(0)
        /\ (Len(out) >= 1 => IsEnd(out[1]))
        /\ \A i \in DOMAIN out : ~IsItem(out[i])

C8_Witness ==
    /\ ctor = "empty"
    /\ Len(out) >= 1
    /\ Len(lens) >= 1
    /\ lens[1].at = 0

\* C9: a failure of the source is returned as the error of the very poll
\* that met it, and the source is polled once per poll of the Body.
C9_FailureIsReturned ==
    ctor = "wrap" =>
        LET run == Run(given, Len(out))
        IN /\ \A i \in DOMAIN out :
                  run[i].tag = "Err" =>
                      /\ out[i].tag = "Err"
                      /\ out[i].val = [hyper |-> run[i].val]
           /\ (inner.tag = "Hyper" => inner.body.pos = Len(out) + 1)

C9_Witness ==
    /\ ctor = "wrap"
    /\ Len(out) >= 2
    /\ out[1].tag = "Err"
    /\ IsItem(out[2])

\* C10: the answers of the polls of a Body built by wrap are the answers of
\* the source, one poll of the source per poll of the Body, each unit in a
\* Chunk of the same bytes; a unit of length zero is a Chunk of length zero.
C10_WrapMirrorsSource ==
    ctor = "wrap" =>
        /\ LET run == Run(given, Len(out))
           IN out = [i \in 1..Len(out) |-> Seen(run[i])]
        /\ (inner.tag = "Hyper" => inner.body = After(given, Len(out)))

C10_Witness ==
    /\ ctor = "wrap"
    /\ Len(out) >= 4
    /\ IsItem(out[1]) /\ Len(out[1].val.inner) > 0
    /\ IsItem(out[2]) /\ Len(out[2].val.inner) = 0
    /\ IsItem(out[3]) /\ Len(out[3].val.inner) > 0
    /\ out[1].val.inner # out[3].val.inner
    /\ IsEnd(out[4])

\* the units a hyper body still has to give, in order
Units_left(b) == SelectSeq(Run(b, MaxScript + 1), IsItem)

\* a step in which a poll of the Body returned NotReady
NotReadyStep == Len(out') = Len(out) + 1 /\ out'[Len(out')] = NotReady

\* C11: a poll that returns NotReady consumes nothing: the Body holds a
\* hyper body before and after it, and the units that later polls can
\* produce are the ones that were to come before it, in the same order.
C11_NotReadyConsumesNothing ==
    [][NotReadyStep =>
          /\ inner.tag = "Hyper"
          /\ inner'.tag = "Hyper"
          /\ Units_left(inner'.body) = Units_left(inner.body)
          /\ hyper_content_length(inner'.body)
                = hyper_content_length(inner.body)]_vars

C11_Witness ==
    /\ ctor = "wrap"
    /\ Len(out) >= 3
    /\ out[1] = NotReady
    /\ IsItem(out[2])
    /\ out[3] = NotReady

\* C15: content_length of a Body that holds a hyper body is what that hyper
\* body reports as its length when the call is made, None included.
C15_StreamingLengthIsSourceHint ==
    \A i \in DOMAIN lens :
        (ctor \in {"wrap", "empty"} \/ lens[i].at > 0) =>
            lens[i].val = hyper_content_length(After(Source, lens[i].at))

C15_Witness ==
    /\ ctor = "wrap"
    /\ Len(lens) = 2
    /\ lens[1].at = 0
    /\ lens[2].at >= 1
    /\ IsItem(out[1])
    /\ lens[2].val = Some(2)

\* a step in which the Body was polled
PollStep == Len(out') = Len(out) + 1

\* C16: a poll of a Body that holds bytes b leaves it holding a hyper body
\* that was seeded with b and polled once, and returns what that hyper
\* body answered; a Body that holds bytes holds the bytes it was built
\* from, never the empty placeholder of the swap.
C16_TransitionBeforeDelegation ==
    [][/\ (inner.tag = "Reusable" => inner.bytes = given)
       /\ (PollStep /\ inner.tag = "Reusable" =>
              /\ inner' = [tag |-> "Hyper", body |-> After(hyper_from(given), 1)]
              /\ out'[Len(out')] = Seen(Run(hyper_from(given), 1)[1]))]_vars

C16_Witness ==
    /\ ctor = "reusable"
    /\ Len(given) >= 2
    /\ Len(out) = 1
    /\ inner = [tag |-> "Hyper", body |-> [kind |-> "Once", val |-> <<>>]]
    /\ out[1] = [tag |-> "Item", val |-> [inner |-> given]]

\* C17: content_length changes nothing of the Body; what a Body holds
\* changes kind only in a poll, or when into_hyper consumes it; so a Body
\* built from b and never polled holds b after any content_length calls and
\* into_hyper then returns Some(b).
C17_ContentLengthChangesNothing ==
    [][/\ (lens' # lens =>
              inner' = inner /\ parts' = parts /\ out' = out /\ hout' = hout)
       /\ ((inner.tag \in {"Reusable", "Hyper"} /\ inner'.tag # inner.tag) =>
              PollStep \/ inner'.tag = "Moved")
       /\ ((ctor = "reusable" /\ out = <<>> /\ inner.tag # "Moved") =>
              inner = [tag |-> "Reusable", bytes |-> given])
       /\ ((ctor = "reusable" /\ out = <<>> /\ parts # None) =>
              parts.buf = Some(given))]_vars

C17_Witness ==
    /\ ctor = "reusable"
    /\ Len(given) >= 2
    /\ Len(lens) = 2
    /\ out = <<>>
    /\ parts # None
    /\ parts.buf = Some(given)

\* C18: no poll of a Body built from bytes returns an error, from the
\* first poll to those after the end of the data.
C18_BytesNeverFail ==
    ctor = "reusable" =>
        \A i \in DOMAIN out : out[i].tag \in {"Item", "End"}

C18_Witness ==
    /\ ctor = "reusable"
    /\ Len(given) >= 1
    /\ Len(out) >= 4
    /\ IsEnd(out[4])

\* C19: a Body built from a buffer b that is not empty returns b as one
\* chunk on the first poll and the end of the data on the second, and is
\* never not ready; one built from an empty buffer returns the end of the
\* data on the first poll and no chunk.
C19_OneChunkThenEnd ==
    ctor = "reusable" =>
        /\ \A i \in DOMAIN out : out[i] # NotReady
        /\ (Len(given) > 0 /\ Len(out) >= 1 =>
               out[1] = [tag |-> "Item", val |-> [inner |-> given]])
        /\ (Len(given) > 0 /\ Len(out) >= 2 => IsEnd(out[2]))
        /\ (Len(given) = 0 =>  \A i \in DOMAIN out : IsEnd(out[i]))

C19_Witness ==
    /\ ctor = "reusable"
    /\ Len(given) = 3
    /\ Len(out) = 2
    /\ IsItem(out[1])
    /\ IsEnd(out[2])

\* ------------------------------------------------------ claims on Chunk
\* the bytes of the region that no accepted advance has passed
Unconsumed == SubSeq(region, cursor + 1, Len(region))

\* the last call was advance(n), made when r bytes remained
LastAdvance(n, r) ==
    /\ Len(asked') = Len(asked) + 1
    /\ asked'[Len(asked')] = [op |-> "advance", n |-> n]
    /\ remaining(chunk) = r

\* C12: in every state remaining() is the length of the region less the
\* cursor and bytes() is the region from the cursor on; an advance(n) with
\* n <= r on a Chunk with remaining() = r leaves remaining() = r - n and
\* bytes() equal to the last r - n bytes it showed before.
C12_CursorLaw ==
    [][/\ (chunk # None =>
              /\ remaining(chunk) = Len(region) - cursor
              /\ bytes(chunk) = Unconsumed)
       /\ \A n \in 0..(Len(region) + 1), r \in 0..Len(region) :
              (LastAdvance(n, r) /\ n <= r) =>
                  /\ ~panicked'
                  /\ remaining(chunk') = r - n
                  /\ bytes(chunk') = SubSeq(bytes(chunk), n + 1, r)
                  /\ cursor' = cursor + n]_vars

C12_Witness ==
    /\ chunk # None
    /\ ~panicked
    /\ Len(region) = 3
    /\ region[2] # region[3]
    /\ Len(asked) = 3
    /\ asked[2] = [op |-> "advance", n |-> 1]
    /\ asked[3] = [op |-> "advance", n |-> 1]
    /\ remaining(chunk) = 1

\* C13: advance(n) with n > remaining() panics: it returns nothing to the
\* caller, leaves the Chunk as it was, and the cursor never passes the end
\* of the region; an advance within what remains does not panic.
C13_AdvancePastEndPanics ==
    [][/\ cursor <= Len(region)
       /\ \A n \in 0..(Len(region) + 1), r \in 0..Len(region) :
              LastAdvance(n, r) =>
                  /\ panicked' = (n > r)
                  /\ (n > r => chunk' = chunk /\ cursor' = cursor)
                  /\ cursor' <= Len(region')]_vars

C13_Witness ==
    /\ panicked
    /\ Len(region) = 2
    /\ Len(asked) = 3
    /\ asked[2] = [op |-> "advance", n |-> 1]
    /\ asked[3] = [op |-> "advance", n |-> 2]
    /\ remaining(chunk) = 1

\* C20: after any advances and extends the slice views of a Chunk, deref
\* and as_ref, and the bytes its iterator yields are the bytes bytes()
\* shows, the unconsumed rest of the region in order; a default Chunk has
\* remaining() = 0 and an empty slice view.
C20_ViewsAgree ==
    chunk # None =>
        /\ deref(chunk) = Unconsumed
        /\ as_ref(chunk) = Unconsumed
        /\ into_iter(chunk) = Unconsumed
        /\ bytes(chunk) = deref(chunk)
        /\ (asked = <<[op |-> "default", n |-> 0]>> =>
               remaining(chunk) = 0 /\ deref(chunk) = <<>>)

C20_Witness ==
    /\ chunk # None
    /\ ~panicked
    /\ Len(region) = 3
    /\ region[2] # region[3]
    /\ cursor = 1
    /\ Len(asked) >= 2
    /\ asked[2].op = "advance"
    /\ into_iter(chunk) = <<region[2], region[3]>>

\* ------------------------------------------------ claims on conversions
\* the text a sequence of bytes encodes; <<-1>> where it encodes none
RECURSIVE utf8_decode(_)
utf8_decode(b) ==
    IF b = <<>> THEN <<>>
    ELSE IF b[1] < 128 THEN <<b[1]>> \o utf8_decode(Tail(b))
    ELSE IF b[1] < 192 \/ Len(b) < 2 THEN <<-1>>
    ELSE <<(b[1] - 192) * 64 + (b[2] - 128)>> \o utf8_decode(Tail(Tail(b)))

\* C14: a conversion from bytes, a vector or a static slice gives a Body
\* that holds those very bytes as Inner::Reusable; a conversion from a
\* String or a static str gives one that holds the UTF-8 bytes of the
\* text; only the conversion from a hyper body gives Inner::Hyper, which
\* holds that body.
C14_ConversionsAreBuffered ==
    /\ (ctor \in {"from_bytes", "from_vec", "from_static_slice"} =>
           inner = [tag |-> "Reusable", bytes |-> given])
    /\ (ctor \in {"from_string", "from_static_str"} =>
           /\ inner.tag = "Reusable"
           /\ utf8_decode(inner.bytes) = given
           /\ \A i \in DOMAIN inner.bytes : inner.bytes[i] \in 0..255)
    /\ (ctor = "from_hyper_body" => inner = [tag |-> "Hyper", body |-> given])
    /\ (inner.tag = "Hyper" => ctor = "from_hyper_body")

C14_Witness ==
    /\ ctor = "from_static_str"
    /\ given = <<65, 233>>
    /\ inner.tag = "Reusable"
    /\ inner.bytes = <<65, 195, 169>>

====
